---- MODULE Spec2Model ----
(***************************************************************************)
(* A model of the Caffe2 image predictor plugin.                           *)
(*                                                                         *)
(* The repository holds three revisions of package predict:                *)
(*   "predict" : src/predict/predict.go                                    *)
(*   "mean"    : src/builtin_models/ResNeXt101-32x4d.yml, lines 56-363     *)
(*               (Preprocess obtains its mean through readMeanFromURL)     *)
(*   "eager"   : src/builtin_models/ResNeXt101-32x4d.yml, lines 365-583    *)
(*               (Load performs download and loadPredictor itself)         *)
(* The variable ver says which revision a behaviour runs.                  *)
(*                                                                         *)
(* float32 values are modelled as exact rationals <<num, den>> in lowest   *)
(* terms with den > 0; float32 rounding is not modelled.                   *)
(***************************************************************************)
EXTENDS Integers, Sequences, FiniteSets, TLC

VARIABLES
    ver,        \* the revision of package predict that runs
    \* ---- Preprocess ----
    img,        \* the resized image: bounds and 16-bit colour of each pixel
    mean,       \* what GetMeanImage returns (a sequence of rationals)
    scale,      \* what GetScale returns (a rational)
    prePc,      \* "idle", "running", "done", "error", "panic"
    preErr,     \* the error Preprocess returned, "nil" when none
    res,        \* the output buffer, indices 0..3*height*width-1
    chanMean,   \* the [3]float32 mean computed by the "mean" revision
    ranges,     \* the row ranges [start, end) parallel.Line hands out
    pos,        \* per range: number of pixels its worker has processed
    writers,    \* per output index: the sequence of ranges that wrote it
    \* ---- manifest and work directory ----
    model,      \* the model manifest (p.Model)
    fs,         \* the files of the work directory: path -> content
    \* ---- Download ----
    dlPc,       \* "idle" or "done"
    dlErr,      \* the error the last download returned, <<>> when nil
    dlCalls,    \* the downloadmanager calls of the last download, in order
    dlCount,    \* number of downloads run so far
    dlOuts,     \* what the network did to the last download: outcome per call
    dlFs0,      \* the files of the work directory before the last download
    \* ---- the predictor object and the native library ----
    pState,     \* "none", "ready" (New returned it), "failed", "crashed"
    newErr,     \* the error New returned, <<>> when nil
    loadReached,\* whether New went on to Load
    p,          \* the ImagePredictor: features, predictor, inputDims
    native,     \* the native sessions gocaffe2.New made: "open" or "closed"
    opens,      \* number of os.Open calls on the label file
    newCalls,   \* number of gocaffe2.New calls
    runCalls,   \* number of native Predict calls
    closes,     \* number of Close calls
    predCount,  \* number of Predict calls
    predOut,    \* what the last Predict returned
    lastPreds,  \* what the native predictor returned to the last Predict
    lpErr,      \* the error the last loadPredictor returned
    readBody,   \* the content of the label file when it was last read
    \* ---- the URL getters ----
    urlOut      \* what GetGraphUrl and GetWeightsUrl returned, Unset before the call

preVars == <<img, mean, scale, prePc, preErr, res, chanMean, ranges, pos, writers>>
dlVars == <<dlPc, dlErr, dlCalls, dlCount, dlOuts, dlFs0>>
lifeVars == <<pState, newErr, loadReached, p, native, opens, newCalls, runCalls,
              closes, predCount, predOut, lastPreds, lpErr, readBody>>
urlVars == <<urlOut>>
vars == <<ver, preVars, model, fs, dlVars, lifeVars, urlVars>>

----------------------------------------------------------------------------
(* Bounds *)

MaxHeight == 2
MaxWidth == 2
MaxDownloads == 1
MaxPredicts == 3
MaxCloses == 1
MaxUrlLen == 2

----------------------------------------------------------------------------
(* Exact rationals standing for float32 values *)

Abs(n) == IF n < 0 THEN -n ELSE n

RECURSIVE Gcd(_, _)
Gcd(a, b) == IF b = 0 THEN a ELSE Gcd(b, a % b)

\* n/d in lowest terms, denominator positive (d # 0)
Rat(n, d) ==
    LET g == Gcd(Abs(n), Abs(d))
        s == IF d < 0 THEN -1 ELSE 1
    IN  <<(s * n) \div g, (s * d) \div g>>

RatInt(n) == <<n, 1>>
RatAdd(a, b) == Rat(a[1] * b[2] + b[1] * a[2], a[2] * b[2])
RatSub(a, b) == Rat(a[1] * b[2] - b[1] * a[2], a[2] * b[2])
RatDiv(a, b) == Rat(a[1] * b[2], a[2] * b[1])

RECURSIVE RatSum(_, _, _)
\* f[lo] + f[lo+1] + ... + f[hi-1], accumulated in index order
RatSum(f, lo, hi) ==
    IF lo >= hi THEN RatInt(0) ELSE RatAdd(RatSum(f, lo, hi - 1), f[hi - 1])

----------------------------------------------------------------------------
(* Images *)

\* The 16-bit colour <<r, g, b>> that img.At(X, Y).RGBA() returns for the
\* pixel with absolute coordinates (X, Y)
At(im, X, Y) == im.pix[<<X, Y>>]

Height(im) == im.maxY - im.minY
Width(im) == im.maxX - im.minX

\* Colour patterns: every pixel and every channel gets its own 8-bit value,
\* and a low byte that the >>8 of Preprocess has to drop.
Pattern(seed, h, w, x, y) ==
    LET i == y * w + x
        v(c) == (seed + 40 * i + 13 * c) % 256
    IN  <<v(0) * 256 + 255, v(1) * 256 + 7, v(2) * 256>>

Seeds == {3, 131}
Origins == {<<0, 0>>, <<1, 2>>}

Images ==
    { [minX |-> o[1], minY |-> o[2], maxX |-> o[1] + w, maxY |-> o[2] + h,
       pix |-> [xy \in (o[1]..(o[1] + w - 1)) \X (o[2]..(o[2] + h - 1)) |->
                   Pattern(s, h, w, xy[1] - o[1], xy[2] - o[2])]] :
        h \in 1..MaxHeight, w \in 1..MaxWidth, s \in Seeds, o \in Origins }

----------------------------------------------------------------------------
(* Preprocess *)

\* What GetMeanImage may return for an image of h rows and w columns: the
\* manifests' three-value means, a one-value mean, or a mean image of three
\* planes of h*w values (a mean.binaryproto blob)
MeanImages(h, w) ==
    { <<RatInt(123), RatInt(117), RatInt(104)>>,
      <<Rat(123675, 1000), Rat(11628, 100), Rat(10352, 100)>>,
      <<RatInt(128)>>,
      [k \in 1..(3 * h * w) |-> RatInt(90 + 7 * k)] }

\* What the manifest's scale may be (never 0: float32 division by zero gives
\* an infinity or a NaN, which the rationals do not have)
Scales == {RatInt(1), RatInt(256)}

\* The steps of Preprocess that may return an error, in the order they run
PreSteps == <<"input", "dims", "resize", "mean", "scale">>

PreError(step) ==
    CASE step = "input" -> "expecting an image input"
      [] step = "dims" -> "GetImageDimensions failed"
      [] step = "resize" -> "failed to resize input image"
      [] step = "mean" -> "failed to get mean image"
      [] step = "scale" -> "failed to get scale"

\* The steps a revision runs: the "mean" revision never calls GetScale
StepsOf(v) == IF v = "predict" THEN 1..5 ELSE 1..4

\* The error of the first failing step, "nil" when none fails
FirstError(v, fails) ==
    LET bad == {i \in StepsOf(v) : PreSteps[i] \in fails}
    IN  IF bad = {} THEN "nil"
        ELSE PreError(PreSteps[CHOOSE i \in bad : \A j \in bad : i <= j])

\* The row ranges [start, end) of a split of 0..h-1 at the rows in cuts
RangesOf(cuts, h) ==
    LET marks == cuts \cup {0, h}
    IN  { <<s, CHOOSE e \in marks : e > s /\ \A m \in marks : m > s => e <= m>> :
            s \in marks \ {h} }

ZeroMean == <<RatInt(0), RatInt(0), RatInt(0)>>

\* The per-channel mean of the "mean" revision: panic when the mean image is
\* read out of range, else mean is the [3]float32
ComputeMean(meanImage, height, width) ==
    IF Len(meanImage) # 3
    THEN IF Len(meanImage) < 3 * width * height
         THEN [panic |-> TRUE, mean |-> ZeroMean]
         ELSE [panic |-> FALSE,
               mean |-> [cc \in 1..3 |->
                 LET offset == (cc - 1) * width * height
                 IN  RatDiv(RatSum(meanImage, offset + 1, offset + width * height + 1),
                            RatInt(width * height))]]
    ELSE [panic |-> FALSE, mean |-> <<meanImage[1], meanImage[2], RatInt(0)>>]

\* PixelWritesPredict with the planes in R, G, B order
PixelWritesPredict_RGB(im, mn, sc, x, y) ==
    LET w == Width(im)
        h == Height(im)
        c == At(im, x + im.minX, y + im.minY)
    IN  << <<y * w + x, RatDiv(RatSub(RatInt(c[1] \div 256), mn[1]), sc)>>,
           <<w * h + y * w + x, RatDiv(RatSub(RatInt(c[2] \div 256), mn[2]), sc)>>,
           <<2 * w * h + y * w + x, RatDiv(RatSub(RatInt(c[3] \div 256), mn[3]), sc)>> >>

\* PixelWritesPredict with the mean read in B, G, R order
PixelWritesPredict_MeanBGR(im, mn, sc, x, y) ==
    LET w == Width(im)
        h == Height(im)
        c == At(im, x + im.minX, y + im.minY)
    IN  << <<y * w + x, RatDiv(RatSub(RatInt(c[3] \div 256), mn[1]), sc)>>,
           <<w * h + y * w + x, RatDiv(RatSub(RatInt(c[2] \div 256), mn[2]), sc)>>,
           <<2 * w * h + y * w + x, RatDiv(RatSub(RatInt(c[1] \div 256), mn[3]), sc)>> >>

\* PixelWritesPredict with planes w apart instead of w*h apart
PixelWritesPredict_Stride(im, mn, sc, x, y) ==
    LET w == Width(im)
        h == Height(im)
        c == At(im, x + im.minX, y + im.minY)
    IN  << <<y * w + x, RatDiv(RatSub(RatInt(c[3] \div 256), mn[3]), sc)>>,
           <<w + y * w + x, RatDiv(RatSub(RatInt(c[2] \div 256), mn[2]), sc)>>,
           <<2 * w + y * w + x, RatDiv(RatSub(RatInt(c[1] \div 256), mn[1]), sc)>> >>

\* The writes of one iteration of the pixel loop of src/predict/predict.go:
\* <<index, value>> pairs in program order
PixelWritesPredict(im, mn, sc, x, y) ==
    LET w == Width(im)
        h == Height(im)
        c == At(im, x + im.minX, y + im.minY)
        r == c[1]
        g == c[2]
        b == c[3]
    IN  << <<y * w + x, RatDiv(RatSub(RatInt(b \div 256), mn[3]), sc)>>,
           <<w * h + y * w + x, RatDiv(RatSub(RatInt(g \div 256), mn[2]), sc)>>,
           <<2 * w * h + y * w + x, RatDiv(RatSub(RatInt(r \div 256), mn[1]), sc)>> >>

\* The writes of one iteration of the pixel loop of the "mean" revision
PixelWritesMean(im, x, y) ==
    LET w == Width(im)
        h == Height(im)
        c == At(im, x + im.minX, y + im.minY)
        r == c[1]
        g == c[2]
        b == c[3]
    IN  << <<y * w + x, RatSub(RatInt(b \div 256), RatInt(128))>>,
           <<w * h + y * w + x, RatSub(RatInt(g \div 256), RatInt(128))>>,
           <<2 * w * h + y * w + x, RatSub(RatInt(r \div 256), RatInt(128))>> >>

PixelWrites(v, im, mn, sc, x, y) ==
    IF v = "predict" THEN PixelWritesPredict(im, mn, sc, x, y)
    ELSE PixelWritesMean(im, x, y)

RECURSIVE Store(_, _, _)
\* buf after the first n writes of ws
Store(buf, ws, n) ==
    IF n = 0 THEN buf
    ELSE [Store(buf, ws, n - 1) EXCEPT ![ws[n][1]] = ws[n][2]]

RECURSIVE Record(_, _, _, _)
\* wr after the worker of rg has made the first n writes of ws
Record(wr, ws, n, rg) ==
    IF n = 0 THEN wr
    ELSE [Record(wr, ws, n - 1, rg) EXCEPT ![ws[n][1]] = Append(@, rg)]

\* How many of the writes ws are made before one is out of range (all 3 if none)
InRange(buf, ws) ==
    LET out == {k \in 1..3 : ws[k][1] \notin DOMAIN buf}
    IN  IF out = {} THEN 3 ELSE (CHOOSE k \in out : \A j \in out : k <= j) - 1

NoImage == [minX |-> 0, minY |-> 0, maxX |-> 0, maxY |-> 0, pix |-> <<>>]

PreInit ==
    /\ img = NoImage
    /\ mean = <<>>
    /\ scale = RatInt(1)
    /\ prePc = "idle"
    /\ preErr = "nil"
    /\ res = <<>>
    /\ chanMean = ZeroMean
    /\ ranges = {}
    /\ pos = <<>>
    /\ writers = <<>>

\* Preprocess up to the start of parallel.Line
PreprocessCall ==
    /\ prePc = "idle"
    /\ \E im \in Images, fails \in SUBSET {PreSteps[i] : i \in 1..5},
          sc \in Scales, cuts \in SUBSET (1..(MaxHeight - 1)) :
         \E mi \in MeanImages(Height(im), Width(im)) :
            LET height == Height(im)
                width == Width(im)
                err == FirstError(ver, fails)
                cm == IF ver = "mean" THEN ComputeMean(mi, height, width)
                      ELSE [panic |-> FALSE, mean |-> ZeroMean]
            IN  /\ cuts \subseteq 1..(height - 1)
                /\ scale' = sc
                /\ IF err # "nil"
                   THEN /\ prePc' = "error"
                        /\ preErr' = err
                        /\ UNCHANGED <<img, mean, res, chanMean, ranges, pos, writers>>
                   ELSE /\ img' = im
                        /\ mean' = mi
                        /\ preErr' = "nil"
                        /\ IF cm.panic
                           THEN /\ prePc' = "panic"
                                /\ UNCHANGED <<res, chanMean, ranges, pos, writers>>
                           ELSE /\ prePc' = "running"
                                /\ chanMean' = cm.mean
                                /\ res' = [i \in 0..(3 * height * width - 1) |-> RatInt(0)]
                                /\ writers' = [i \in 0..(3 * height * width - 1) |-> <<>>]
                                /\ ranges' = RangesOf(cuts, height)
                                /\ pos' = [rg \in RangesOf(cuts, height) |-> 0]
    /\ UNCHANGED <<ver, model, fs, dlVars, lifeVars, urlVars>>

\* One iteration of the pixel loop in the worker that got the rows of rg
LineWorker(rg) ==
    /\ prePc = "running"
    /\ rg \in ranges
    /\ pos[rg] < (rg[2] - rg[1]) * Width(img)
    /\ LET y == rg[1] + (pos[rg] \div Width(img))
           x == pos[rg] % Width(img)
       IN  IF ver = "predict" /\ Len(mean) < 3
           THEN /\ prePc' = "panic"
                /\ UNCHANGED <<res, writers, pos>>
           ELSE LET ws == PixelWrites(ver, img, mean, scale, x, y)
                    n == InRange(res, ws)
                IN  /\ res' = Store(res, ws, n)
                    /\ writers' = Record(writers, ws, n, rg)
                    /\ IF n < 3
                       THEN prePc' = "panic" /\ UNCHANGED pos
                       ELSE pos' = [pos EXCEPT ![rg] = @ + 1] /\ UNCHANGED prePc
    /\ UNCHANGED <<ver, img, mean, scale, preErr, chanMean, ranges>>
    /\ UNCHANGED <<model, fs, dlVars, lifeVars, urlVars>>

\* parallel.Line returns when every worker has finished; Preprocess returns res
PreprocessReturn ==
    /\ prePc = "running"
    /\ \A rg \in ranges : pos[rg] = (rg[2] - rg[1]) * Width(img)
    /\ prePc' = "done"
    /\ UNCHANGED <<ver, img, mean, scale, preErr, res, chanMean, ranges, pos, writers>>
    /\ UNCHANGED <<model, fs, dlVars, lifeVars, urlVars>>

NextPre ==
    \/ PreprocessCall
    \/ \E rg \in ranges : LineWorker(rg)
    \/ PreprocessReturn

----------------------------------------------------------------------------
(* Strings are sequences of characters, so that TrimSuffix, Base and ToLower *)
(* are computed rather than assumed.                                          *)

\* strings.TrimSuffix(s, "/")
TrimSuffix(s) ==
    IF Len(s) > 0 /\ s[Len(s)] = "/" THEN SubSeq(s, 1, Len(s) - 1) ELSE s

\* filepath.Base(s) for a non-empty s that does not end in "/"
Base(s) ==
    LET seps == {i \in 1..Len(s) : s[i] = "/"}
    IN  IF seps = {} THEN s
        ELSE SubSeq(s, (CHOOSE i \in seps : \A j \in seps : j <= i) + 1, Len(s))

----------------------------------------------------------------------------
(* The manifest *)

NoErr == <<>>
Absent == <<"absent">>

\* md5 of a file content, as the manifests' *_checksum fields give it
Md5(body) == <<"md5", body>>

\* The checksum fields of the manifest are not needed to build a predictor;
\* DefaultModel has them match the contents the URLs serve.
DefaultModel ==
    [ name |-> <<"m">>,
      inputs |-> << <<"i", "m", "a", "g", "e">> >>,
      base_url |-> <<"b">>,
      graph_path |-> <<"g">>,
      weights_path |-> <<"w">>,
      is_archive |-> FALSE,
      features_url |-> <<"f">>,
      dimensions |-> <<3, 2, 2>>,
      graph_checksum |-> Md5("A"),
      weights_checksum |-> Md5("A"),
      features_checksum |-> Md5("A") ]

\* a getter that puts "/" after the base URL as it is
GetGraphUrl_NoTrim(m) ==
    IF m.is_archive THEN m.base_url
    ELSE (IF m.base_url # <<>> THEN m.base_url \o <<"/">> ELSE <<>>) \o m.graph_path

GetWeightsUrl(m) ==
    IF m.is_archive THEN m.base_url
    ELSE (IF m.base_url # <<>> THEN TrimSuffix(m.base_url) \o <<"/">> ELSE <<>>)
         \o m.weights_path

GetGraphUrl(m) ==
    IF m.is_archive THEN m.base_url
    ELSE (IF m.base_url # <<>> THEN TrimSuffix(m.base_url) \o <<"/">> ELSE <<>>)
         \o m.graph_path

\* params["features_url"], "" when the parameter is missing
GetFeaturesUrl(m) == IF m.features_url = Absent THEN <<>> ELSE m.features_url

\* The value of urlOut before a getter has been called
Unset == <<"unset">>

NoUrls == [graph |-> Unset, weights |-> Unset]

UrlInit == urlOut = NoUrls

\* One call of p.GetGraphUrl()
GetGraphUrlCall ==
    /\ urlOut.graph = Unset
    /\ urlOut' = [urlOut EXCEPT !.graph = GetGraphUrl(model)]
    /\ UNCHANGED <<ver, model, fs, preVars, dlVars, lifeVars>>

\* One call of p.GetWeightsUrl()
GetWeightsUrlCall ==
    /\ urlOut.weights = Unset
    /\ urlOut' = [urlOut EXCEPT !.weights = GetWeightsUrl(model)]
    /\ UNCHANGED <<ver, model, fs, preVars, dlVars, lifeVars>>

NextUrl == GetGraphUrlCall \/ GetWeightsUrlCall

WorkDir == <<"d">>

\* filepath.Join(workDir, name)
Join(dir, name) == dir \o <<"/">> \o name

GetGraphPath(m) == Join(WorkDir, Base(m.graph_path))
GetWeightsPath(m) == Join(WorkDir, Base(m.weights_path))
GetFeaturesPath(m) == Join(WorkDir, m.name \o <<".features">>)

Paths(m) == {GetGraphPath(m), GetWeightsPath(m), GetFeaturesPath(m)}

----------------------------------------------------------------------------
(* Download *)

\* What a download may meet: the transfer fails, or it delivers a body
Bodies == {"A", "B"}
Outcomes == [ok : BOOLEAN, body : Bodies]

\* downloadmanager.DownloadFile(url, targetPath) meeting outcome o: the file
\* is written on success, an error is returned on failure.  It is given the
\* URL and the target path only.
DownloadFile(files, url, path, o) ==
    IF o.ok
    THEN [err |-> NoErr, fs |-> [files EXCEPT ![path] = o.body],
          call |-> [fn |-> "DownloadFile", url |-> url, path |-> path, ok |-> TRUE]]
    ELSE [err |-> <<"download failed", url>>, fs |-> files,
          call |-> [fn |-> "DownloadFile", url |-> url, path |-> path, ok |-> FALSE]]

\* downloadmanager.DownloadInto(url, dir) meeting outcome o: the archive is
\* unpacked into dir, giving the graph and the weights files
DownloadInto(files, m, url, o) ==
    IF o.ok
    THEN [err |-> NoErr,
          fs |-> [q \in DOMAIN files |->
                    IF q \in {GetGraphPath(m), GetWeightsPath(m)} THEN o.body
                    ELSE files[q]],
          call |-> [fn |-> "DownloadInto", url |-> url, path |-> WorkDir, ok |-> TRUE]]
    ELSE [err |-> <<"download failed", url>>, fs |-> files,
          call |-> [fn |-> "DownloadInto", url |-> url, path |-> WorkDir, ok |-> FALSE]]

\* The three DownloadFile calls in the order graph, weights, features, each
\* made only when the one before returned no error; outs[k] is what the k-th
\* call meets
ThreeFiles(m, files, outs) ==
    LET g == DownloadFile(files, GetGraphUrl(m), GetGraphPath(m), outs[1])
        w == DownloadFile(g.fs, GetWeightsUrl(m), GetWeightsPath(m), outs[2])
        f == DownloadFile(w.fs, GetFeaturesUrl(m), GetFeaturesPath(m), outs[3])
    IN  IF g.err # NoErr THEN [err |-> g.err, fs |-> g.fs, calls |-> <<g.call>>]
        ELSE IF w.err # NoErr
             THEN [err |-> w.err, fs |-> w.fs, calls |-> <<g.call, w.call>>]
             ELSE [err |-> f.err, fs |-> f.fs, calls |-> <<g.call, w.call, f.call>>]

\* DoDownload going on to the next file after a failed download
DoDownload_Continue(m, files, outs) ==
    LET g == DownloadFile(files, GetGraphUrl(m), GetGraphPath(m), outs[1])
        w == DownloadFile(g.fs, GetWeightsUrl(m), GetWeightsPath(m), outs[2])
        f == DownloadFile(w.fs, GetFeaturesUrl(m), GetFeaturesPath(m), outs[3])
    IN  [err |-> IF g.err # NoErr THEN g.err ELSE IF w.err # NoErr THEN w.err ELSE f.err,
         fs |-> f.fs, calls |-> <<g.call, w.call, f.call>>]

\* DoDownload comparing what it fetched with the manifest's checksums
DoDownload_Verify(m, files, outs) ==
    LET r == ThreeFiles(m, files, outs)
        bad == \/ Md5(r.fs[GetGraphPath(m)]) # m.graph_checksum
               \/ Md5(r.fs[GetWeightsPath(m)]) # m.weights_checksum
               \/ Md5(r.fs[GetFeaturesPath(m)]) # m.features_checksum
    IN  IF r.err = NoErr /\ bad THEN [r EXCEPT !.err = <<"checksum mismatch">>] ELSE r

\* ImagePredictor.Download of the "predict" and "mean" revisions
DoDownload(m, files, outs) == ThreeFiles(m, files, outs)

\* download fetching the label file as well after the archive
DoDownloadEager_ThenFeatures(m, files, outs) ==
    IF m.is_archive
    THEN LET a == DownloadInto(files, m, m.base_url, outs[1])
             f == DownloadFile(a.fs, GetFeaturesUrl(m), GetFeaturesPath(m), outs[3])
         IN  IF a.err # NoErr
             THEN [err |-> <<"failed to download model archive from", m.base_url, a.err>>,
                   fs |-> a.fs, calls |-> <<a.call>>]
             ELSE [err |-> f.err, fs |-> f.fs, calls |-> <<a.call, f.call>>]
    ELSE ThreeFiles(m, files, outs)

\* ImagePredictor.download of the "eager" revision
DoDownloadEager(m, files, outs) ==
    IF m.is_archive
    THEN LET a == DownloadInto(files, m, m.base_url, outs[1])
         IN  IF a.err # NoErr
             THEN [err |-> <<"failed to download model archive from", m.base_url, a.err>>,
                   fs |-> a.fs, calls |-> <<a.call>>]
             ELSE [err |-> NoErr, fs |-> a.fs, calls |-> <<a.call>>]
    ELSE ThreeFiles(m, files, outs)

DlInit ==
    /\ dlPc = "idle"
    /\ dlErr = NoErr
    /\ dlCalls = <<>>
    /\ dlCount = 0
    /\ dlOuts = <<>>
    /\ dlFs0 = <<>>

\* One call of Download ("predict", "mean") or download ("eager"); met is
\* the set of things the network may do to its three calls
Download(met) ==
    /\ dlPc = "idle"
    /\ dlCount < MaxDownloads
    /\ \E outs \in met :
         LET r == IF ver = "eager" THEN DoDownloadEager(model, fs, outs)
                  ELSE DoDownload(model, fs, outs)
         IN  /\ fs' = r.fs
             /\ dlErr' = r.err
             /\ dlCalls' = r.calls
             /\ dlOuts' = outs
    /\ dlFs0' = fs
    /\ dlPc' = "done"
    /\ dlCount' = dlCount + 1
    /\ UNCHANGED <<ver, model>>

\* The caller takes the result; the predictor is ready for another call
DownloadReturn ==
    /\ dlPc = "done"
    /\ dlPc' = "idle"
    /\ UNCHANGED <<ver, model, fs, dlErr, dlCalls, dlCount, dlOuts, dlFs0>>

\* A download on its own, the network doing anything to each of its calls
DownloadAlone ==
    /\ Download([1..3 -> Outcomes])
    /\ UNCHANGED <<preVars, lifeVars, urlVars>>

DownloadAloneReturn ==
    /\ DownloadReturn
    /\ UNCHANGED <<preVars, lifeVars, urlVars>>

NextDl ==
    \/ DownloadAlone
    \/ DownloadAloneReturn

\* The checksum fields a manifest may have: all three matching content "A",
\* or one of them matching no content served
Checksums ==
    { [g |-> Md5(c[1]), w |-> Md5(c[2]), f |-> Md5(c[3])] :
        c \in { <<"A", "A", "A">>, <<"other", "A", "A">>, <<"A", "other", "A">>,
                <<"A", "A", "other">> } }

WithChecksums(m, cs) ==
    [m EXCEPT !.graph_checksum = cs.g, !.weights_checksum = cs.w,
              !.features_checksum = cs.f]

\* The manifests of the download runs: base URL with and without a trailing
\* slash or empty, archive or not, checksums matching or not
DlModels ==
    { WithChecksums([DefaultModel EXCEPT !.base_url = b, !.is_archive = a], cs) :
        b \in {<<>>, <<"b">>, <<"b", "/">>}, a \in BOOLEAN, cs \in Checksums }

EmptyDir(m) == [q \in Paths(m) |-> "none"]

----------------------------------------------------------------------------
(* New, Load, loadPredictor, Predict, Close *)

\* strings.ToLower on the letters the input types use
Lower(ch) ==
    CASE ch = "I" -> "i"
      [] ch = "M" -> "m"
      [] ch = "A" -> "a"
      [] ch = "G" -> "g"
      [] ch = "E" -> "e"
      [] OTHER -> ch

ToLower(str) == [i \in 1..Len(str) |-> Lower(str[i])]

Image == <<"i", "m", "a", "g", "e">>

\* New with the input type looked at before the number of inputs
NewCheck_TypeFirst(m) ==
    IF m.inputs # <<>> /\ ToLower(m.inputs[1]) # Image
    THEN <<"input type not supported">>
    ELSE IF Len(m.inputs) # 1 THEN <<"number of inputs not supported">>
    ELSE NoErr

\* The checks of New: the error it returns before Load, <<>> when it goes on
NewCheck(m) ==
    IF Len(m.inputs) # 1 THEN <<"number of inputs not supported">>
    ELSE IF ToLower(m.inputs[1]) # Image THEN <<"input type not supported">>
    ELSE NoErr

\* p.GetImageDimensions(): the manifest's three dimensions behind the batch
\* size, an error when the manifest does not give three
GetImageDimensions(m) ==
    IF Len(m.dimensions) = 3
    THEN [err |-> NoErr, dims |-> <<1>> \o m.dimensions]
    ELSE [err |-> <<"dimensions">>, dims |-> <<>>]

\* The lines bufio.Scanner reads from a label file of the given content
LabelLines(body) ==
    CASE body = "A" -> <<"cat", "dog", "fox">>
      [] body = "B" -> <<"cat">>

\* new(ImagePredictor)
NilPredictor == [features |-> <<>>, predictor |-> 0, inputDims |-> <<>>]

\* loadPredictor of the "eager" revision, which has no p.predictor != nil test
LoadPredictorEager(pr, m, files, newOk, nat) ==
    LET path == GetFeaturesPath(m)
        dims == GetImageDimensions(m)
        p1 == [pr EXCEPT !.features = LabelLines(files[path]), !.inputDims = dims.dims]
        made == /\ newOk
                /\ files[GetGraphPath(m)] # "none"
                /\ files[GetWeightsPath(m)] # "none"
    IN  IF files[path] = "none"
        THEN [p |-> pr, err |-> <<"cannot read", path>>, native |-> nat,
              opened |-> 1, read |-> FALSE, newCalled |-> 0]
        ELSE IF dims.err # NoErr
        THEN [p |-> p1, err |-> dims.err, native |-> nat,
              opened |-> 1, read |-> TRUE, newCalled |-> 0]
        ELSE IF ~made
        THEN [p |-> p1, err |-> <<"gocaffe2.New">>, native |-> nat,
              opened |-> 1, read |-> TRUE, newCalled |-> 1]
        ELSE [p |-> [p1 EXCEPT !.predictor = Len(nat) + 1], err |-> NoErr,
              native |-> Append(nat, "open"),
              opened |-> 1, read |-> TRUE, newCalled |-> 1]

\* loadPredictor without its p.predictor != nil test
LoadPredictorLazy_NoGuard(pr, m, files, newOk, nat) ==
    LoadPredictorEager(pr, m, files, newOk, nat)

\* loadPredictor of the "predict" and "mean" revisions
LoadPredictorLazy(pr, m, files, newOk, nat) ==
    IF pr.predictor # 0
    THEN [p |-> pr, err |-> NoErr, native |-> nat,
          opened |-> 0, read |-> FALSE, newCalled |-> 0]
    ELSE LoadPredictorEager(pr, m, files, newOk, nat)

LoadPredictor(v, pr, m, files, newOk, nat) ==
    IF v = "eager" THEN LoadPredictorEager(pr, m, files, newOk, nat)
    ELSE LoadPredictorLazy(pr, m, files, newOk, nat)

\* What the native predictor may return: an error, or a list of predictions
Prediction(i, pr) == [Index |-> i, Probability |-> pr]

PredLists ==
    { <<>>,
      <<Prediction(1, 70), Prediction(0, 30)>>,
      <<Prediction(2, 60), Prediction(0, 40)>> }

NativeOutcomes ==
    {[err |-> TRUE, preds |-> <<>>]} \cup {[err |-> FALSE, preds |-> ps] : ps \in PredLists}

\* The loop of Predict over the predictions with Name taken at the position
\* in the list instead of at the prediction's index
Reformat_ByPosition(features, predictions) ==
    IF \E i \in 1..Len(predictions) : i > Len(features)
    THEN [panic |-> TRUE, feats |-> <<>>]
    ELSE [panic |-> FALSE,
          feats |-> [i \in 1..Len(predictions) |->
                       [Index |-> predictions[i].Index,
                        Name |-> features[i],
                        Probability |-> predictions[i].Probability]]]

\* The loop of Predict over the predictions: one record per prediction, a
\* panic when an index is not one of p.features
Reformat(features, predictions) ==
    IF \E i \in 1..Len(predictions) : predictions[i].Index + 1 > Len(features)
    THEN [panic |-> TRUE, feats |-> <<>>]
    ELSE [panic |-> FALSE,
          feats |-> [i \in 1..Len(predictions) |->
                       [Index |-> predictions[i].Index,
                        Name |-> features[predictions[i].Index + 1],
                        Probability |-> predictions[i].Probability]]]

NoOut == [status |-> "none", err |-> NoErr, feats |-> <<>>]

LifeInit ==
    /\ pState = "none"
    /\ newErr = NoErr
    /\ loadReached = FALSE
    /\ p = NilPredictor
    /\ native = <<>>
    /\ opens = 0
    /\ newCalls = 0
    /\ runCalls = 0
    /\ closes = 0
    /\ predCount = 0
    /\ predOut = NoOut
    /\ lastPreds = <<>>
    /\ lpErr = NoErr
    /\ readBody = "none"

\* What the network does to the downloads of a predictor's life: all three
\* arrive, with the long or the short label file; the graph or the label
\* file does not arrive
Got(b) == [ok |-> TRUE, body |-> b]
Lost == [ok |-> FALSE, body |-> "A"]
LifeOutcomes ==
    { <<Got("A"), Got("A"), Got("A")>>, <<Got("A"), Got("A"), Got("B")>>,
      <<Lost, Got("A"), Got("A")>>, <<Got("A"), Got("A"), Lost>> }

\* New(model), with Load: the "eager" revision downloads and loads in Load
NewCall ==
    /\ pState = "none"
    /\ \E fwOk \in BOOLEAN, wdOk \in BOOLEAN, newOk \in BOOLEAN,
          outs \in LifeOutcomes :
         LET chk == NewCheck(model)
             dl == DoDownloadEager(model, fs, outs)
             lp == LoadPredictor(ver, NilPredictor, model, dl.fs, newOk, native)
         IN  IF chk # NoErr
             THEN /\ pState' = "failed"
                  /\ newErr' = chk
                  /\ UNCHANGED <<loadReached, p, native, opens, newCalls, lpErr,
                                 readBody, fs, dlVars>>
             ELSE /\ loadReached' = TRUE
                  /\ IF ~fwOk \/ ~wdOk
                     THEN /\ pState' = "failed"
                          /\ newErr' = IF ~fwOk THEN <<"ResolveFramework">>
                                       ELSE <<"WorkDir">>
                          /\ UNCHANGED <<p, native, opens, newCalls, lpErr, readBody,
                                         fs, dlVars>>
                     ELSE /\ pState' = "ready"
                          /\ newErr' = NoErr
                          /\ IF ver = "eager"
                             THEN /\ fs' = dl.fs
                                  /\ dlErr' = dl.err
                                  /\ dlCalls' = dl.calls
                                  /\ dlOuts' = outs
                                  /\ dlFs0' = fs
                                  /\ dlCount' = dlCount + 1
                                  /\ UNCHANGED dlPc
                                  /\ p' = lp.p
                                  /\ native' = lp.native
                                  /\ opens' = opens + lp.opened
                                  /\ newCalls' = newCalls + lp.newCalled
                                  /\ lpErr' = lp.err
                                  /\ readBody' = IF lp.read
                                                 THEN dl.fs[GetFeaturesPath(model)]
                                                 ELSE readBody
                             ELSE UNCHANGED <<p, native, opens, newCalls, lpErr,
                                              readBody, fs, dlVars>>
    /\ UNCHANGED <<ver, model, preVars, runCalls, closes, predCount, predOut, lastPreds,
                   urlVars>>

\* The host calls Download on the predictor New returned
HostDownload ==
    /\ pState = "ready"
    /\ ver # "eager"
    /\ Download(LifeOutcomes)
    /\ UNCHANGED <<preVars, lifeVars, urlVars>>

HostDownloadReturn ==
    /\ DownloadReturn
    /\ UNCHANGED <<preVars, lifeVars, urlVars>>

\* One call of Predict
Predict ==
    /\ pState = "ready"
    /\ predCount < MaxPredicts
    /\ predCount' = predCount + 1
    /\ \E inputOk \in BOOLEAN, newOk \in BOOLEAN, out \in NativeOutcomes,
          crash \in BOOLEAN :
         LET lp == IF ver = "eager"
                   THEN [p |-> p, err |-> NoErr, native |-> native,
                         opened |-> 0, read |-> FALSE, newCalled |-> 0]
                   ELSE LoadPredictor(ver, p, model, fs, newOk, native)
             rf == Reformat(lp.p.features, out.preds)
         IN  /\ p' = lp.p
             /\ native' = lp.native
             /\ opens' = opens + lp.opened
             /\ newCalls' = newCalls + lp.newCalled
             /\ lpErr' = IF ver = "eager" THEN lpErr ELSE lp.err
             /\ readBody' = IF lp.read THEN fs[GetFeaturesPath(model)] ELSE readBody
             /\ IF lp.err # NoErr
                THEN /\ predOut' = [status |-> "err", err |-> lp.err, feats |-> <<>>]
                     /\ UNCHANGED <<runCalls, lastPreds, pState>>
                ELSE IF ver # "eager" /\ ~inputOk
                THEN /\ predOut' = [status |-> "err",
                                    err |-> <<"expecting []float32 input in predict function">>,
                                    feats |-> <<>>]
                     /\ UNCHANGED <<runCalls, lastPreds, pState>>
                ELSE IF Len(lp.p.inputDims) < 4 \/ lp.p.predictor = 0
                THEN /\ predOut' = [status |-> "panic", err |-> NoErr, feats |-> <<>>]
                     /\ pState' = "crashed"
                     /\ UNCHANGED <<runCalls, lastPreds>>
                ELSE IF lp.native[lp.p.predictor] = "closed" /\ crash
                THEN \* a closed session is freed memory: the native call may
                     \* also take the process down
                     /\ runCalls' = runCalls + 1
                     /\ predOut' = [status |-> "panic", err |-> NoErr, feats |-> <<>>]
                     /\ pState' = "crashed"
                     /\ UNCHANGED lastPreds
                ELSE /\ runCalls' = runCalls + 1
                     /\ IF out.err
                        THEN /\ predOut' = [status |-> "err", err |-> <<"native predict">>,
                                            feats |-> <<>>]
                             /\ UNCHANGED <<lastPreds, pState>>
                        ELSE /\ lastPreds' = out.preds
                             /\ IF rf.panic
                                THEN /\ predOut' = [status |-> "panic", err |-> NoErr,
                                                    feats |-> <<>>]
                                     /\ pState' = "crashed"
                                ELSE /\ predOut' = [status |-> "ok", err |-> NoErr,
                                                    feats |-> rf.feats]
                                     /\ UNCHANGED pState
    /\ UNCHANGED <<ver, model, fs, preVars, dlVars, newErr, loadReached, closes, urlVars>>

\* One call of Close
Close ==
    /\ pState = "ready"
    /\ closes < MaxCloses
    /\ closes' = closes + 1
    /\ native' = IF p.predictor # 0 THEN [native EXCEPT ![p.predictor] = "closed"]
                 ELSE native
    /\ UNCHANGED <<ver, model, fs, preVars, dlVars, pState, newErr, loadReached, p,
                   opens, newCalls, runCalls, predCount, predOut, lastPreds, lpErr,
                   readBody, urlVars>>

Next ==
    \/ NewCall
    \/ HostDownload
    \/ HostDownloadReturn
    \/ Predict
    \/ Close

\* The manifests a predictor is made from: the number and the types of the
\* inputs vary, and the dimensions may be missing
InputTypes ==
    { Image, <<"I", "M", "A", "G", "E">>, <<"I", "m", "a", "g", "e">>,
      <<"a", "u", "d", "i", "o">>, <<>> }

Audio == <<"a", "u", "d", "i", "o">>

LifeModels ==
    { [DefaultModel EXCEPT !.inputs = ins] :
        ins \in {<<>>} \cup {<<t>> : t \in InputTypes}
                \cup {<<Image, Image>>, <<Image, Audio>>, <<Audio, Image>>} }
    \cup
    { [DefaultModel EXCEPT !.dimensions = d, !.is_archive = a] :
        d \in {<<3, 2, 2>>, <<>>}, a \in BOOLEAN }

Init ==
    /\ ver \in {"predict", "eager"}
    /\ model \in LifeModels
    /\ fs = EmptyDir(model)
    /\ PreInit
    /\ DlInit
    /\ LifeInit
    /\ UrlInit

Spec == Init /\ [][Next]_vars

InitDl ==
    /\ ver \in {"predict", "mean", "eager"}
    /\ model \in DlModels
    /\ fs = EmptyDir(model)
    /\ PreInit
    /\ DlInit
    /\ LifeInit
    /\ UrlInit

SpecDl == InitDl /\ [][NextDl]_vars

InitPre ==
    /\ ver \in {"predict", "mean"}
    /\ model = DefaultModel
    /\ fs = EmptyDir(model)
    /\ PreInit
    /\ DlInit
    /\ LifeInit
    /\ UrlInit

SpecPre == InitPre /\ [][NextPre]_vars

\* The base URLs tried: every string of at most MaxUrlLen characters over
\* a letter and the slash
BaseUrls == UNION {[1..n -> {"b", "/"}] : n \in 0..MaxUrlLen}

UrlModels ==
    { [DefaultModel EXCEPT !.base_url = b, !.is_archive = a,
                           !.graph_path = g, !.weights_path = w] :
        b \in BaseUrls, a \in BOOLEAN,
        g \in {<<"g">>, <<"s", "/", "g">>}, w \in {<<"w">>} }

InitUrl ==
    /\ ver \in {"mean", "eager"}
    /\ model \in UrlModels
    /\ fs = EmptyDir(model)
    /\ PreInit
    /\ DlInit
    /\ LifeInit
    /\ UrlInit

SpecUrl == InitUrl /\ [][NextUrl]_vars

----------------------------------------------------------------------------
(* Claims about Preprocess *)

\* The pixel with row y and column x of the resized image
Pixel(x, y) == At(img, x + img.minX, y + img.minY)

\* What a revision makes of a 16-bit channel value v16 whose configured mean
\* is m
Normalized(v16, m) ==
    IF ver = "predict" THEN RatDiv(RatSub(RatInt(v16 \div 256), m), scale)
    ELSE RatSub(RatInt(v16 \div 256), RatInt(128))

\* C1: when Preprocess returns, the buffer has exactly 3*H*W values, every
\* index has been written, and for every pixel (x, y) the blue value is at
\* y*W+x, the green value at H*W+y*W+x and the red value at 2*H*W+y*W+x.
C1_PlanarBGR ==
    prePc = "done" =>
        LET H == Height(img)
            W == Width(img)
        IN  /\ DOMAIN res = 0..(3 * H * W - 1)
            /\ \A i \in DOMAIN res : writers[i] # <<>>
            /\ \A x \in 0..(W - 1), y \in 0..(H - 1) :
                 /\ res[y * W + x] = Normalized(Pixel(x, y)[3], mean[3])
                 /\ res[H * W + y * W + x] = Normalized(Pixel(x, y)[2], mean[2])
                 /\ res[2 * H * W + y * W + x] = Normalized(Pixel(x, y)[1], mean[1])

C1_Witness ==
    prePc = "done" /\ Height(img) = 2 /\ Width(img) = 2 /\ ver = "predict"

\* C2: in src/predict/predict.go every value written is (8-bit channel value
\* - mean of that channel) / scale, the mean read in R, G, B order: plane 0
\* (blue) uses mean[2], plane 1 (green) mean[1], plane 2 (red) mean[0].
C2_MeanScale ==
    (ver = "predict" /\ prePc \in {"running", "done"}) =>
        \A i \in DOMAIN res :
            writers[i] # <<>> =>
                LET HW == Height(img) * Width(img)
                    plane == i \div HW
                    y == (i % HW) \div Width(img)
                    x == (i % HW) % Width(img)
                    c == 3 - plane
                    v8 == Pixel(x, y)[c] \div 256
                IN  res[i] = RatDiv(RatSub(RatInt(v8), mean[c]), scale)

C2_Witness ==
    /\ ver = "predict"
    /\ prePc = "done"
    /\ scale = RatInt(256)
    /\ mean = <<Rat(123675, 1000), Rat(11628, 100), Rat(10352, 100)>>
    /\ Height(img) * Width(img) > 1

\* C3: in the revision that reads its mean through readMeanFromURL, every
\* value written is (8-bit channel value - a per-channel mean computed from
\* the mean image) / configured scale.
C3_MeanRevisionUsesMeanScale ==
    (ver = "mean" /\ prePc = "done") =>
        \A i \in DOMAIN res :
            LET HW == Height(img) * Width(img)
                plane == i \div HW
                y == (i % HW) \div Width(img)
                x == (i % HW) % Width(img)
                v8 == Pixel(x, y)[3 - plane] \div 256
            IN  \E c \in 1..3 :
                    res[i] = RatDiv(RatSub(RatInt(v8), chanMean[c]), scale)

RECURSIVE Sequential(_, _, _, _, _, _)
\* The buffer after a single worker has processed the first n pixels of the
\* image in row order
Sequential(v, im, mn, sc, buf, n) ==
    IF n = 0 THEN buf
    ELSE Store(Sequential(v, im, mn, sc, buf, n - 1),
               PixelWrites(v, im, mn, sc, (n - 1) % Width(im), (n - 1) \div Width(im)),
               3)

\* C8: no output index is written by two workers or twice, when the loop is
\* over every index has been written exactly once, and the buffer is the one
\* a single worker produces, whatever the split and the interleaving.
C8_DisjointRows ==
    prePc \in {"running", "done", "panic"} /\ res # <<>> =>
        /\ \A i \in DOMAIN res : Len(writers[i]) <= 1
        /\ prePc = "done" =>
             /\ \A i \in DOMAIN res : Len(writers[i]) = 1
             /\ res = Sequential(ver, img, mean, scale,
                                 [i \in DOMAIN res |-> RatInt(0)],
                                 Height(img) * Width(img))

C8_Witness ==
    /\ prePc = "done"
    /\ Cardinality(ranges) = 2
    /\ Width(img) = 2
    /\ \E i, j \in DOMAIN res : writers[i] # writers[j]

----------------------------------------------------------------------------
(* Claims about Download *)

\* The k-th download Download makes: graph, weights, features
Expected(k) ==
    CASE k = 1 -> [url |-> GetGraphUrl(model), path |-> GetGraphPath(model)]
      [] k = 2 -> [url |-> GetWeightsUrl(model), path |-> GetWeightsPath(model)]
      [] k = 3 -> [url |-> GetFeaturesUrl(model), path |-> GetFeaturesPath(model)]

\* C6: Download attempts graph, weights, features in that order, stops at the
\* first download that fails and returns its error, and returns nil only
\* when all three succeeded.
C6_DownloadOrder ==
    (ver \in {"predict", "mean"} /\ dlPc = "done") =>
        LET n == Len(dlCalls)
        IN  /\ n \in 1..3
            /\ \A k \in 1..n :
                 /\ dlCalls[k].fn = "DownloadFile"
                 /\ dlCalls[k].url = Expected(k).url
                 /\ dlCalls[k].path = Expected(k).path
                 /\ dlCalls[k].ok = dlOuts[k].ok
            /\ \A k \in 1..(n - 1) : dlCalls[k].ok
            /\ (n < 3 => ~dlCalls[n].ok)
            /\ (dlErr = NoErr) = (n = 3 /\ \A k \in 1..3 : dlOuts[k].ok)
            /\ (~dlCalls[n].ok => dlErr = <<"download failed", Expected(n).url>>)

C6_Witness ==
    /\ ver = "predict"
    /\ dlPc = "done"
    /\ Len(dlCalls) = 2
    /\ dlErr # NoErr
    /\ dlOuts[3].ok

\* C7: the outcome of Download does not depend on the manifest's checksums:
\* with any other checksums and the same network, Download ends with the
\* same error, the same files and the same downloads made.
C7_ChecksumsUnused ==
    (ver \in {"predict", "mean"} /\ dlPc = "done") =>
        \A cs \in Checksums :
            LET r == DoDownload(WithChecksums(model, cs), dlFs0, dlOuts)
            IN  r.err = dlErr /\ r.fs = fs /\ r.calls = dlCalls

C7_Witness ==
    /\ ver = "predict"
    /\ dlPc = "done"
    /\ dlErr = NoErr
    /\ Md5(fs[GetGraphPath(model)]) # model.graph_checksum
    /\ Md5(fs[GetFeaturesPath(model)]) = model.features_checksum

----------------------------------------------------------------------------
(* Claims about New, Load and Predict *)

\* C4: Predict returns one record per prediction of the native predictor, in
\* the same order: record i has the index and the probability of prediction
\* i, and as Name the line of that index (from 0) of the label file
\* loadPredictor read.
C4_OneRecordPerPrediction ==
    predOut.status = "ok" =>
        /\ Len(predOut.feats) = Len(lastPreds)
        /\ \A i \in 1..Len(lastPreds) :
             /\ predOut.feats[i].Index = lastPreds[i].Index
             /\ predOut.feats[i].Probability = lastPreds[i].Probability
             /\ predOut.feats[i].Name = LabelLines(readBody)[lastPreds[i].Index + 1]

C4_Witness ==
    /\ predOut.status = "ok"
    /\ Len(lastPreds) = 2
    /\ lastPreds[1].Index = 1
    /\ predOut.feats[1].Name = "dog"

\* C5: in the revision whose Load downloads and loads, a predictor that Load
\* returned without an error has had no failed download and no failed
\* loadPredictor, and has a native session.
C5_LoadPropagatesErrors ==
    (ver = "eager" /\ pState \in {"ready", "crashed"}) =>
        /\ dlErr = NoErr
        /\ lpErr = NoErr
        /\ p.predictor # 0

\* The spellings of a lower-case letter that differ in case only
CaseVariants(ch) ==
    CASE ch = "i" -> {"i", "I"}
      [] ch = "m" -> {"m", "M"}
      [] ch = "a" -> {"a", "A"}
      [] ch = "g" -> {"g", "G"}
      [] ch = "e" -> {"e", "E"}

\* The manifest's first input has type "image" up to case
FirstIsImage ==
    /\ Len(model.inputs) >= 1
    /\ Len(model.inputs[1]) = Len(Image)
    /\ \A i \in 1..Len(Image) : model.inputs[1][i] \in CaseVariants(Image[i])

\* C9: New returns an error and no predictor when the manifest does not have
\* exactly one input, and when its single input is not of type "image" up to
\* case; the number of inputs is checked first, and Load is reached only
\* when both checks pass.
C9_NewChecks ==
    pState # "none" =>
        /\ Len(model.inputs) # 1 =>
             /\ pState = "failed"
             /\ newErr = <<"number of inputs not supported">>
             /\ ~loadReached
        /\ (Len(model.inputs) = 1 /\ ~FirstIsImage) =>
             /\ pState = "failed"
             /\ newErr = <<"input type not supported">>
             /\ ~loadReached
        /\ loadReached = (Len(model.inputs) = 1 /\ FirstIsImage)

C9_Witness ==
    /\ pState = "failed"
    /\ Len(model.inputs) = 2
    /\ ~FirstIsImage
    /\ newErr = <<"number of inputs not supported">>

\* C10: over the Predict calls on one predictor the native session is made at
\* most once; a Predict on a predictor that has its session neither reads the
\* label file nor calls gocaffe2.New; a Predict whose loadPredictor fails
\* returns that error, runs nothing native and leaves the session nil; and a
\* Predict on a predictor without a session attempts the load.
C10_LoadOnce ==
    /\ [](ver # "eager" => Len(native) <= 1)
    /\ [][(ver # "eager" /\ predCount' = predCount + 1) =>
            /\ p.predictor # 0 =>
                 /\ opens' = opens
                 /\ newCalls' = newCalls
                 /\ native' = native
                 /\ p' = p
            /\ p.predictor = 0 => opens' = opens + 1
            /\ lpErr' # NoErr =>
                 /\ predOut'.status = "err"
                 /\ predOut'.err = lpErr'
                 /\ runCalls' = runCalls
                 /\ p'.predictor = 0]_vars

C10_Witness ==
    /\ ver = "predict"
    /\ predCount = 3
    /\ opens = 2
    /\ newCalls = 1
    /\ runCalls = 2
    /\ Len(native) = 1
    /\ p.predictor = 1

\* C11: once Close has closed the native session the session is not used
\* again: no Predict runs native inference on a closed session, no Close
\* closes a session that is already closed, and a Close on a predictor whose
\* session was never made touches nothing native.
C11_NoUseAfterClose ==
    [][/\ (runCalls' = runCalls + 1) => native'[p'.predictor] # "closed"
       /\ (closes' = closes + 1 /\ p.predictor # 0) => native[p.predictor] = "open"
       /\ (closes' = closes + 1 /\ p.predictor = 0) => native' = native]_vars

\* C12: every prediction the native predictor returned to Predict has an
\* index below the number of label lines the predictor holds, so reading
\* p.features[pred.Index] stays in range and Predict does not end in an
\* index-out-of-range panic.
C12_LabelIndexInRange ==
    \A i \in 1..Len(lastPreds) : lastPreds[i].Index < Len(p.features)

----------------------------------------------------------------------------
(* The URL getters *)

\* Whether the string s ends in "/"
EndsInSlash(s) == Len(s) > 0 /\ s[Len(s)] = "/"

\* The string s without its last character
Front(s) == SubSeq(s, 1, Len(s) - 1)

\* The string s without any of its trailing "/"
RECURSIVE NoTrailingSlash(_)
NoTrailingSlash(s) == IF EndsInSlash(s) THEN NoTrailingSlash(Front(s)) ELSE s

\* What the getters returned, each with the getter and the path it is about
UrlCalls ==
    { c \in { [url |-> urlOut.graph, path |-> model.graph_path, get |-> "graph"],
              [url |-> urlOut.weights, path |-> model.weights_path, get |-> "weights"] } :
        c.url # Unset }

\* The getter named get applied to the manifest m
UrlOf(get, m) == IF get = "graph" THEN GetGraphUrl(m) ELSE GetWeightsUrl(m)

\* C13 as stated: with is_archive set the getters return the base URL; else
\* an empty base URL gives the bare path, any other base URL gives base and
\* path with exactly one "/" between them, and a base URL with one trailing
\* slash gives what the same base URL without that slash gives.
C13_UrlJoin ==
    \A c \in UrlCalls :
        /\ model.is_archive => c.url = model.base_url
        /\ (~model.is_archive /\ model.base_url = <<>>) => c.url = c.path
        /\ (~model.is_archive /\ model.base_url # <<>>) =>
              c.url = NoTrailingSlash(model.base_url) \o <<"/">> \o c.path
        /\ (~model.is_archive /\ EndsInSlash(model.base_url)
              /\ ~EndsInSlash(Front(model.base_url))) =>
              c.url = UrlOf(c.get, [model EXCEPT !.base_url = Front(model.base_url)])

\* C13 amended: with is_archive set the getters return the base URL; else an
\* empty base URL gives the bare path, and any other base URL gives the base
\* URL less at most one trailing "/", then one "/", then the path, so that a
\* non-empty base URL not ending in "/" and the same base URL with one "/"
\* appended give the same result.
C13_UrlJoinOneSlash ==
    \A c \in UrlCalls :
        /\ model.is_archive => c.url = model.base_url
        /\ (~model.is_archive /\ model.base_url = <<>>) => c.url = c.path
        /\ (~model.is_archive /\ model.base_url # <<>>) =>
              c.url = (IF EndsInSlash(model.base_url) THEN Front(model.base_url)
                       ELSE model.base_url) \o <<"/">> \o c.path
        /\ (~model.is_archive /\ EndsInSlash(model.base_url)
              /\ Front(model.base_url) # <<>>
              /\ ~EndsInSlash(Front(model.base_url))) =>
              c.url = UrlOf(c.get, [model EXCEPT !.base_url = Front(model.base_url)])

C13_Witness ==
    /\ ~model.is_archive
    /\ model.base_url = <<"b", "/">>
    /\ model.graph_path = <<"s", "/", "g">>
    /\ urlOut.graph = <<"b", "/", "s", "/", "g">>
    /\ urlOut.weights = <<"b", "/", "w">>

----------------------------------------------------------------------------
(* The download helper of the revision that handles archives *)

\* C14: in the revision whose download handles archives, with is_archive set
\* exactly one download is made, DownloadInto of the base URL into the work
\* directory, no graph, weights or features download is attempted, and a
\* failure of the archive download is returned as an error; without
\* is_archive graph, weights and features are downloaded in that order and
\* the first failure is returned without attempting the rest.
C14_ArchiveDownload ==
    (ver = "eager" /\ dlPc = "done") =>
        LET n == Len(dlCalls)
        IN  IF model.is_archive
            THEN /\ n = 1
                 /\ dlCalls[1].fn = "DownloadInto"
                 /\ dlCalls[1].url = model.base_url
                 /\ dlCalls[1].path = WorkDir
                 /\ dlCalls[1].ok = dlOuts[1].ok
                 /\ (dlErr = NoErr) = dlOuts[1].ok
                 /\ ~dlOuts[1].ok =>
                      dlErr = <<"failed to download model archive from", model.base_url,
                                <<"download failed", model.base_url>> >>
                 /\ fs[GetFeaturesPath(model)] = dlFs0[GetFeaturesPath(model)]
            ELSE /\ n \in 1..3
                 /\ \A k \in 1..n :
                      /\ dlCalls[k].fn = "DownloadFile"
                      /\ dlCalls[k].url = Expected(k).url
                      /\ dlCalls[k].path = Expected(k).path
                      /\ dlCalls[k].ok = dlOuts[k].ok
                 /\ \A k \in 1..(n - 1) : dlCalls[k].ok
                 /\ (n < 3 => ~dlCalls[n].ok)
                 /\ (dlErr = NoErr) = (n = 3 /\ dlCalls[3].ok)
                 /\ (~dlCalls[n].ok => dlErr = <<"download failed", Expected(n).url>>)

C14_Witness ==
    /\ ver = "eager"
    /\ dlPc = "done"
    /\ model.is_archive
    /\ Len(dlCalls) = 1
    /\ dlCalls[1].fn = "DownloadInto"
    /\ ~dlOuts[1].ok
    /\ dlOuts[2].ok
    /\ dlErr # NoErr

----------------------------------------------------------------------------
(* The per-channel mean of the revision that computes its own mean *)

\* The average of plane c (1..3) of a mean image for h rows and w columns
PlaneAverage(meanImage, c, h, w) ==
    RatDiv(RatSum(meanImage, (c - 1) * w * h + 1, c * w * h + 1), RatInt(w * h))

\* C15: in the revision that computes its own mean, once Preprocess has the
\* mean image: a mean of exactly 3 values gives mean[c] = meanImage[c] for
\* the three channels; any other mean image gives for mean[c] the average of
\* the W*H values of plane c, and computing it does not read the mean image
\* out of range.
C15_ChannelMean ==
    (ver = "mean" /\ img # NoImage) =>
        /\ Len(mean) = 3 => \A c \in 1..3 : chanMean[c] = mean[c]
        /\ Len(mean) # 3 =>
             /\ ~(prePc = "panic" /\ res = <<>>)
             /\ \A c \in 1..3 :
                  chanMean[c] = PlaneAverage(mean, c, Height(img), Width(img))

====
